---- MODULE Spec2Model ----
(***************************************************************************)
(* A model of src/trans.py: the MarkdownConverter dispatch loop, its       *)
(* handlers, the navigation accumulator and the convert_file driver.       *)
(*                                                                         *)
(* Text is modelled as a sequence of one-character strings, so that        *)
(* strip/startswith/split/re.sub are computed character by character.      *)
(* An emitted HTML fragment is a record naming the f-string template that  *)
(* produced it ("kind") together with the values substituted into it.      *)
(* Indices into `lines` are 0-based, as in the source.                     *)
(***************************************************************************)
EXTENDS Integers, Sequences, FiniteSets, TLC

VARIABLES
    pending,             \* the texts the caller will still pass to convert_with_navigation
    output_file,         \* convert_file's output path (NoFile: the converter is used directly)
    files,               \* the file system: path -> what was written
    pc,                  \* "idle" | "loop" | "done" | "returned" | "wrote" | "file_done"
    calls,               \* number of convert calls started on this converter
    entry_section_counter, \* history: self.section_counter when the running call was entered
    lines,               \* convert: lines
    i,                   \* convert: i
    html_lines,          \* convert: html_lines
    combined_text,       \* _handle_continuous_paragraphs: combined_text before inline markup
    section_counter,     \* self.section_counter
    subsection_counter,  \* self.subsection_counter
    current_section,     \* self.current_section
    in_content_section,  \* self.in_content_section
    navigation_items,    \* self.navigation_items
    content_html,        \* convert_with_navigation: content_html
    navigation_html      \* convert_with_navigation: navigation_html

vars == <<pending, output_file, files, pc, calls, entry_section_counter, lines, i, html_lines, combined_text,
          section_counter, subsection_counter, current_section, in_content_section,
          navigation_items, content_html, navigation_html>>

conv == <<section_counter, subsection_counter, current_section, in_content_section,
          navigation_items>>

(***************************************************************************)
(* Bounds of the model.                                                    *)
(***************************************************************************)
MaxLines == 2          \* lines of a general input
MaxHeadings == 4       \* lines of a heading-only input
MaxTail == 4           \* lines after an image line
MaxRows == 3           \* lines of a table input
MaxParagraph == 2      \* lines of a paragraph input
MaxCalls == 2          \* successive calls on one converter
MaxReuseLines == 2     \* lines of an input of a reused converter

(***************************************************************************)
(* Python str primitives on character sequences.                           *)
(***************************************************************************)
Whitespace == {" ", "\t"}
Digits == {"0", "1", "2", "3", "4", "5", "6", "7", "8", "9"}

Drop(s, n) == SubSeq(s, n + 1, Len(s))

RECURSIVE LStripSet(_, _)
LStripSet(s, chars) ==
    IF s # <<>> /\ s[1] \in chars THEN LStripSet(Tail(s), chars) ELSE s

RECURSIVE RStripSet(_, _)
RStripSet(s, chars) ==
    IF s # <<>> /\ s[Len(s)] \in chars THEN RStripSet(SubSeq(s, 1, Len(s) - 1), chars) ELSE s

Strip(s) == RStripSet(LStripSet(s, Whitespace), Whitespace)

StartsWith(s, p) == Len(s) >= Len(p) /\ SubSeq(s, 1, Len(p)) = p

\* s.find(p, from): the least 1-based index >= from at which p occurs, 0 when none
Find(s, p, from) ==
    LET hits == {k \in from..(Len(s) - Len(p) + 1) : SubSeq(s, k, k + Len(p) - 1) = p}
    IN IF hits = {} THEN 0 ELSE CHOOSE k \in hits : \A m \in hits : k <= m

Contains(s, p) == Find(s, p, 1) # 0

RECURSIVE Split(_, _)
Split(s, sep) ==
    LET k == Find(s, <<sep>>, 1)
    IN IF k = 0 THEN <<s>> ELSE <<SubSeq(s, 1, k - 1)>> \o Split(Drop(s, k), sep)

RECURSIVE Join(_, _)
Join(ss, sep) ==
    IF ss = <<>> THEN <<>>
    ELSE IF Len(ss) = 1 THEN ss[1]
    ELSE ss[1] \o sep \o Join(Tail(ss), sep)

RECURSIVE RemoveChars(_, _)
RemoveChars(s, chars) ==
    IF s = <<>> THEN <<>>
    ELSE (IF s[1] \in chars THEN <<>> ELSE <<s[1]>>) \o RemoveChars(Tail(s), chars)

\* the length of the maximal run of digits at the start of s
RECURSIVE DigitRun(_)
DigitRun(s) == IF s # <<>> /\ s[1] \in Digits THEN 1 + DigitRun(Tail(s)) ELSE 0

Line(ls, k) == ls[k + 1]

(***************************************************************************)
(* Line patterns used by the dispatcher and the extractors.                *)
(***************************************************************************)
\* re.match(r'^\[\d+\]', line)
IsReference(line) ==
    /\ line # <<>> /\ line[1] = "["
    /\ DigitRun(Tail(line)) > 0
    /\ Len(line) >= DigitRun(Tail(line)) + 2
    /\ line[DigitRun(Tail(line)) + 2] = "]"

IsBullet(line) == StartsWith(line, <<"-", " ">>) \/ StartsWith(line, <<"*", " ">>)

IsImageLine(line) == Contains(line, <<"!", "[">>) /\ Contains(line, <<"]", "(">>)

HasPipe(line) == Contains(line, <<"|">>)

IsUrl(line) ==
    \/ StartsWith(line, <<"h", "t", "t", "p", ":", "/", "/">>)
    \/ StartsWith(line, <<"h", "t", "t", "p", "s", ":", "/", "/">>)

\* re.match(r'^\d+\.', line)
IsNumbered(line) ==
    DigitRun(line) > 0 /\ Len(line) > DigitRun(line) /\ line[DigitRun(line) + 1] = "."

\* the branch convert's if/elif chain takes for lines[k]
Branch(ls, k) ==
    LET line == Strip(Line(ls, k))
    IN IF StartsWith(line, <<"#", " ">>) /\ ~StartsWith(line, <<"#", "#", " ">>) THEN "h1"
       ELSE IF StartsWith(line, <<"#", "#", " ">>) /\ ~StartsWith(line, <<"#", "#", "#", " ">>)
           THEN "h2"
       ELSE IF StartsWith(line, <<"#", "#", "#", " ">>)
               /\ ~StartsWith(line, <<"#", "#", "#", "#", " ">>) THEN "h3"
       ELSE IF StartsWith(line, <<"#", "#", "#", "#", " ">>) THEN "h4"
       ELSE IF IsImageLine(line) THEN "image"
       ELSE IF HasPipe(line) /\ k + 1 < Len(ls) /\ HasPipe(Line(ls, k + 1)) THEN "table"
       ELSE IF IsBullet(line) THEN "list"
       ELSE IF IsReference(line) THEN "reference"
       ELSE IF line # <<>> THEN "paragraph"
       ELSE "blank"

(***************************************************************************)
(* re.sub models.  Each scans left to right and replaces the leftmost,     *)
(* non-overlapping matches, as re.sub does.                                *)
(***************************************************************************)
\* re.sub(d + r'(.*?)' + d, open + r'\1' + close, s) for a literal delimiter d
RECURSIVE WrapDelim(_, _, _, _)
WrapDelim(s, d, open, close) ==
    LET p == Find(s, d, 1)
        q == IF p = 0 THEN 0 ELSE Find(s, d, p + Len(d))
    IN IF q = 0 THEN s
       ELSE SubSeq(s, 1, p - 1) \o open \o SubSeq(s, p + Len(d), q - 1) \o close
            \o WrapDelim(Drop(s, q + Len(d) - 1), d, open, close)

BOpen == <<"<", "b", ">">>
BClose == <<"<", "/", "b", ">">>
IOpen == <<"<", "i", ">">>
IClose == <<"<", "/", "i", ">">>
SupOpen == <<"<", "s", "u", "p", ">">>
SupClose == <<"<", "/", "s", "u", "p", ">">>
Br == <<"<", "b", "r", ">">>

\* re.sub(r'\*\*(.*?)\*\*', r'<b>\1</b>', .) then re.sub(r'__(.*?)__', r'<b>\1</b>', .)
Bold(s) == WrapDelim(WrapDelim(s, <<"*", "*">>, BOpen, BClose), <<"_", "_">>, BOpen, BClose)

\* re.sub(r'\*(.*?)\*', r'<i>\1</i>', .) then re.sub(r'_(.*?)_', r'<i>\1</i>', .)
Italic(s) == WrapDelim(WrapDelim(s, <<"*">>, IOpen, IClose), <<"_">>, IOpen, IClose)

\* re.sub(r'\[(\d+)\]', r'<sup>[\1]</sup>', s) from 1-based position k on; with
\* guarded, the pattern is r'(?<!\>)\[(\d+)\](?!\<)'
RECURSIVE SupFrom(_, _, _)
SupFrom(s, k, guarded) ==
    IF k > Len(s) THEN <<>>
    ELSE LET n == DigitRun(Drop(s, k))
             matches == /\ s[k] = "["
                        /\ n > 0
                        /\ k + n + 1 <= Len(s)
                        /\ s[k + n + 1] = "]"
                        /\ guarded => (k = 1 \/ s[k - 1] # ">")
                        /\ guarded => (k + n + 2 > Len(s) \/ s[k + n + 2] # "<")
         IN IF matches
            THEN SupOpen \o SubSeq(s, k, k + n + 1) \o SupClose \o SupFrom(s, k + n + 2, guarded)
            ELSE <<s[k]>> \o SupFrom(s, k + 1, guarded)

InlineMarkup(s) == SupFrom(Italic(Bold(s)), 1, TRUE)

\* re.sub(r'(\d+\.\s)', r'<br>\1', s) from 1-based position k on
RECURSIVE InsertBrFrom(_, _)
InsertBrFrom(s, k) ==
    IF k > Len(s) THEN <<>>
    ELSE LET n == DigitRun(Drop(s, k - 1))
             matches == /\ n > 0
                        /\ k + n + 1 <= Len(s)
                        /\ s[k + n] = "."
                        /\ s[k + n + 1] \in Whitespace
         IN IF matches
            THEN Br \o SubSeq(s, k, k + n + 1) \o InsertBrFrom(s, k + n + 2)
            ELSE <<s[k]>> \o InsertBrFrom(s, k + 1)

(***************************************************************************)
(* Fragments.                                                              *)
(***************************************************************************)
EmptyFragment == [kind |-> "empty"]                     \* ""
DivOpen == [kind |-> "div_open"]                        \* '<div class="content-section">'
DivClose == [kind |-> "div_close"]                      \* '</div>'
Caption == [kind |-> "figure"]                          \* '<p class="Figure"></p>'

SectionId(n) == "section" \o ToString(n)
SubsectionId(n, m) == "section" \o ToString(n) \o "-" \o ToString(m)

(***************************************************************************)
(* Heading handlers.                                                       *)
(***************************************************************************)
None == -1

\* _handle_h1: the fragments returned
H1Fragments(in_section, section_id, title) ==
    (IF in_section THEN <<DivClose>> ELSE <<>>)
    \o <<[kind |-> "h2", id |-> section_id, title |-> title], DivOpen>>

\* faulty variant: the section counter is not incremented
H1Context_NoIncrement(counter, subs) ==
    [section_counter |-> counter,
     current_section |-> counter,
     subsection_counter |-> (counter :> 0) @@ subs]

\* _handle_h1: the counter updates
H1Context(counter, subs) ==
    [section_counter |-> counter + 1,
     current_section |-> counter + 1,
     subsection_counter |-> ((counter + 1) :> 0) @@ subs]

\* faulty variant: the id is built from the subsection counter before its increment
H2Context_StaleId(counter, subs, current) ==
    IF current # None
    THEN [section_counter |-> counter,
          current_section |-> current,
          subsection_counter |-> [subs EXCEPT ![current] = @ + 1],
          id |-> SubsectionId(current, subs[current])]
    ELSE [section_counter |-> counter + 1,
          current_section |-> counter + 1,
          subsection_counter |-> ((counter + 1) :> 1) @@ subs,
          id |-> SubsectionId(counter + 1, 1)]

\* _handle_h2: the counter updates and the id
H2Context(counter, subs, current) ==
    IF current # None
    THEN [section_counter |-> counter,
          current_section |-> current,
          subsection_counter |-> [subs EXCEPT ![current] = @ + 1],
          id |-> SubsectionId(current, subs[current] + 1)]
    ELSE [section_counter |-> counter + 1,
          current_section |-> counter + 1,
          subsection_counter |-> ((counter + 1) :> 1) @@ subs,
          id |-> SubsectionId(counter + 1, 1)]

\* faulty variant: the last content-section is never closed
FinishFragments_NoClose(in_section) == <<>>

\* convert, after the loop: close the last content-section
FinishFragments(in_section) == IF in_section THEN <<DivClose>> ELSE <<>>

(***************************************************************************)
(* Image handler.                                                          *)
(***************************************************************************)
NoUrl == <<>>

\* convert's lookahead loop: for j in range(i + 1, min(i + 4, len(lines)))
RECURSIVE ImageLookahead(_, _, _)
ImageLookahead(ls, k, j) ==
    LET stop == IF k + 4 < Len(ls) THEN k + 4 ELSE Len(ls)
        check_line == Strip(Line(ls, j))
    IN IF j >= stop THEN [next_line_url |-> NoUrl, skip_lines |-> 0]
       ELSE IF check_line = <<>> THEN ImageLookahead(ls, k, j + 1)
       ELSE IF IsUrl(check_line) THEN [next_line_url |-> check_line, skip_lines |-> j - k]
       ELSE [next_line_url |-> NoUrl, skip_lines |-> 0]

\* re.search(r'!\[(.*?)\]\((.*?)\)', line): the groups, or matched |-> FALSE
ImageMatch(line) ==
    LET p == Find(line, <<"!", "[">>, 1)
        q == IF p = 0 THEN 0 ELSE Find(line, <<"]", "(">>, p + 2)
        r == IF q = 0 THEN 0 ELSE Find(line, <<")">>, q + 2)
    IN IF r = 0 THEN [matched |-> FALSE]
       ELSE [matched |-> TRUE,
             alt |-> SubSeq(line, p + 2, q - 1),
             src |-> SubSeq(line, q + 2, r - 1)]

\* _handle_image, with convert's "if caption_html" applied: the fragments appended
ImageFragments(line, next_line_url) ==
    LET m == ImageMatch(line)
    IN IF m.matched
       THEN <<[kind |-> "img",
               src |-> IF next_line_url # NoUrl THEN next_line_url ELSE m.src,
               alt |-> m.alt],
              Caption>>
       ELSE <<[kind |-> "raw", text |-> line]>>

\* faulty variant: the cursor stops on the URL line instead of after it
ImageNext_OffByOne(k, look) ==
    IF look.next_line_url # NoUrl /\ look.skip_lines > 0 THEN k + look.skip_lines ELSE k + 1

\* convert: the cursor after the image branch
ImageNext(k, look) ==
    IF look.next_line_url # NoUrl /\ look.skip_lines > 0 THEN k + look.skip_lines + 1 ELSE k + 1

(***************************************************************************)
(* Table handler.                                                          *)
(***************************************************************************)
RECURSIVE ExtractTable(_, _)
ExtractTable(ls, k) ==
    IF k < Len(ls) /\ HasPipe(Strip(Line(ls, k)))
    THEN LET rest == ExtractTable(ls, k + 1)
         IN [table_lines |-> <<Strip(Line(ls, k))>> \o rest.table_lines, next_i |-> rest.next_i]
    ELSE [table_lines |-> <<>>, next_i |-> k]

NonBlank(cell) == Strip(cell) # <<>>

\* [cell.strip() for cell in row.split('|') if cell.strip()], each through the
\* superscript substitution
Cells(row) ==
    LET kept == SelectSeq(Split(row, "|"), NonBlank)
    IN [c \in 1..Len(kept) |-> SupFrom(Strip(kept[c]), 1, FALSE)]

\* faulty variant: the second row is skipped whatever it holds
StartRow_AlwaysSkip(table_lines) == IF Len(table_lines) > 1 THEN 2 ELSE 1

\* _handle_table: the index of the first body row
StartRow(table_lines) ==
    IF Len(table_lines) > 1 /\ RemoveChars(table_lines[2], {"|", "-", " "}) = <<>>
    THEN 2 ELSE 1

\* _handle_table: thead holds the <th> cells of the one header <tr>; tbody holds
\* one sequence of <td> cells per body <tr> (no <tbody> element when it is empty)
HandleTable(table_lines) ==
    IF table_lines = <<>> THEN EmptyFragment
    ELSE LET start_row == StartRow(table_lines)
         IN [kind |-> "table",
             thead |-> Cells(table_lines[1]),
             tbody |-> [r \in 1..(Len(table_lines) - start_row) |->
                           Cells(table_lines[start_row + r])]]

(***************************************************************************)
(* List and reference handlers.                                            *)
(***************************************************************************)
RECURSIVE ExtractList(_, _)
ExtractList(ls, k) ==
    LET line == IF k < Len(ls) THEN Strip(Line(ls, k)) ELSE <<>>
        belongs == /\ k < Len(ls)
                   /\ \/ IsBullet(line)
                      \/ line = <<>> /\ k + 1 < Len(ls) /\ IsBullet(Strip(Line(ls, k + 1)))
    IN IF belongs
       THEN LET rest == ExtractList(ls, k + 1)
            IN [list_lines |-> (IF line # <<>> THEN <<line>> ELSE <<>>) \o rest.list_lines,
                next_i |-> rest.next_i]
       ELSE [list_lines |-> <<>>, next_i |-> k]

HandleList(list_lines) ==
    IF list_lines = <<>> THEN EmptyFragment
    ELSE [kind |-> "ul",
          items |-> [k \in 1..Len(list_lines) |-> Bold(Strip(Drop(list_lines[k], 2)))]]

RECURSIVE ExtractReferences(_, _)
ExtractReferences(ls, k) ==
    LET line == IF k < Len(ls) THEN Strip(Line(ls, k)) ELSE <<>>
        belongs == /\ k < Len(ls)
                   /\ \/ IsReference(line)
                      \/ line = <<>> /\ k + 1 < Len(ls) /\ IsReference(Strip(Line(ls, k + 1)))
    IN IF belongs
       THEN LET rest == ExtractReferences(ls, k + 1)
            IN [ref_lines |-> (IF line # <<>> THEN <<line>> ELSE <<>>) \o rest.ref_lines,
                next_i |-> rest.next_i]
       ELSE [ref_lines |-> <<>>, next_i |-> k]

\* re.match(r'^\[(\d+)\](.*)', line): number and stripped content
ReferenceItem(line) ==
    LET n == DigitRun(Tail(line))
    IN [number |-> SubSeq(line, 2, n + 1), content |-> Strip(Drop(line, n + 2))]

HandleReferences(ref_lines) ==
    IF ref_lines = <<>> THEN EmptyFragment
    ELSE LET kept == SelectSeq(ref_lines, IsReference)
         IN [kind |-> "references", items |-> [k \in 1..Len(kept) |-> ReferenceItem(kept[k])]]

(***************************************************************************)
(* Paragraph handler.                                                      *)
(***************************************************************************)
ParagraphStop(line) ==
    \/ StartsWith(line, <<"#">>)
    \/ IsBullet(line)
    \/ IsImageLine(line)
    \/ HasPipe(line)
    \/ IsReference(line)

RECURSIVE ExtractContinuousParagraphs(_, _)
ExtractContinuousParagraphs(ls, k) ==
    IF k >= Len(ls) THEN [paragraph_lines |-> <<>>, next_i |-> k]
    ELSE LET line == Strip(Line(ls, k))
         IN IF line = <<>> THEN ExtractContinuousParagraphs(ls, k + 1)
            ELSE IF ParagraphStop(line) THEN [paragraph_lines |-> <<>>, next_i |-> k]
            ELSE LET rest == ExtractContinuousParagraphs(ls, k + 1)
                 IN [paragraph_lines |-> <<line>> \o rest.paragraph_lines,
                     next_i |-> rest.next_i]

\* any(re.match(r'^\d+\.', line.strip()) for line in paragraph_lines)
HasNumberedItems(paragraph_lines) ==
    \E k \in 1..Len(paragraph_lines) : IsNumbered(Strip(paragraph_lines[k]))

\* combined_text.lstrip('<br>'): str.lstrip takes a set of characters
LStripBr(s) == LStripSet(s, {"<", "b", "r", ">"})

\* _handle_continuous_paragraphs: combined_text before the inline markup
CombinedText(paragraph_lines) ==
    IF HasNumberedItems(paragraph_lines)
    THEN LStripBr(InsertBrFrom(Join(paragraph_lines, <<" ">>), 1))
    ELSE Join(paragraph_lines, <<" ">>)

HandleContinuousParagraphs(paragraph_lines) ==
    IF paragraph_lines = <<>> THEN EmptyFragment
    ELSE [kind |-> "p", text |-> InlineMarkup(CombinedText(paragraph_lines))]

(***************************************************************************)
(* Navigation accumulator.                                                 *)
(***************************************************************************)
\* generate_navigation: one block per item of level 1 or 2, in order
NavBlock(item) ==
    [class |-> IF item.level = 1 THEN "nav-item level-1" ELSE "nav-item level-2",
     target |-> item.id,
     title |-> item.title]

GenerateNavigation(items) == [k \in 1..Len(items) |-> NavBlock(items[k])]

(***************************************************************************)
(* convert_file.                                                           *)
(***************************************************************************)
NoFile == <<>>

\* str.replace(old, new): every non-overlapping occurrence, left to right
RECURSIVE Replace(_, _, _)
Replace(s, old, new) ==
    LET k == Find(s, old, 1)
    IN IF k = 0 THEN s
       ELSE SubSeq(s, 1, k - 1) \o new \o Replace(Drop(s, k + Len(old) - 1), old, new)

\* nav_file = output_file.replace('.html', '_nav.html')
NavFile(path) ==
    Replace(path, <<".", "h", "t", "m", "l">>, <<"_", "n", "a", "v", ".", "h", "t", "m", "l">>)

(***************************************************************************)
(* Inputs.                                                                 *)
(***************************************************************************)
LH1 == <<"#", " ", "A">>
LH2 == <<"#", "#", " ", "B">>
LH3 == <<"#", "#", "#", " ", "C">>
LH4 == <<"#", "#", "#", "#", " ", "D">>
LImage == <<"!", "[", "a", "]", "(", "u", ")">>
LBadImage == <<"!", "[", "a", "]", "(", "u">>
LUrl == <<" ", "h", "t", "t", "p", ":", "/", "/", "x">>
LBlank == <<>>
LSpaces == <<" ">>
LPipe == <<"a", "|", "[", "1", "]">>
LSeparator == <<"|", "-", "|">>
LH1Pipe == <<"#", " ", "T", "|", "x">>
LBullet == <<"-", " ", "*", "*", "i", "*", "*">>
LReference == <<"[", "1", "]", " ", "r">>
LText == <<"t", "[", "2", "]">>
LHashText == <<"#", "x">>
LNumbered == <<"1", ".", " ", "x">>
LBar == <<"b", "a", "r">>
LNumberedTwo == <<"1", "2", ".", "\t", "*", "y", "*">>
LBrText == <<"<", "b", "r", ">", "z">>

Corpus == {LH1, LH2, LH3, LH4, LImage, LUrl, LBlank, LPipe, LSeparator, LH1Pipe, LBullet,
           LReference, LText, LHashText, LNumbered, LBar}
HeadingCorpus == {LH1, LH2, LH3, LText}
ImageHeads == {LImage, LBadImage}
TailCorpus == {LBlank, LSpaces, LUrl, LText}
TableCorpus == {LPipe, LSeparator, <<"|", " ", "-", "-", " ", "|", "c">>}
ParagraphCorpus == {LNumbered, LBar, LNumberedTwo, LBrText}
ReuseCorpus == {LH1, LH2}

SeqsOf(S, lo, hi) == UNION {[1..n -> S] : n \in lo..hi}

Text(ls) == Join(ls, <<"\n">>)

SingleTexts ==
    {Text(ls) : ls \in SeqsOf(Corpus, 1, MaxLines)}
    \cup {Text(ls) : ls \in SeqsOf(HeadingCorpus, 1, MaxHeadings)}
    \cup {Text(<<h>> \o t) : h \in ImageHeads, t \in SeqsOf(TailCorpus, 0, MaxTail)}
    \cup {Text(ls) : ls \in SeqsOf(TableCorpus, 2, MaxRows)}
    \cup {Text(ls) : ls \in SeqsOf(ParagraphCorpus, 1, MaxParagraph)}

ReuseTexts == {Text(ls) : ls \in SeqsOf(ReuseCorpus, 1, MaxReuseLines)} \cup {Text(<<LText>>)}

FileTexts == {Text(<<LH1, LText>>), Text(<<LText>>), Text(<<LH2, LH1>>)}

OutputPaths ==
    {<<"o", ".", "h", "t", "m", "l">>,
     <<"o", ".", "h", "t", "m">>,
     <<"o">>,
     <<"d", ".", "h", "t", "m", "l", "/", "o", ".", "h", "t", "m", "l">>}

Scenarios ==
    {[pending |-> <<t>>, output_file |-> NoFile] : t \in SingleTexts}
    \cup {[pending |-> p, output_file |-> NoFile] : p \in SeqsOf(ReuseTexts, 2, MaxCalls)}
    \cup {[pending |-> <<t>>, output_file |-> o] : t \in FileTexts, o \in OutputPaths}

(***************************************************************************)
(* The state machine.                                                      *)
(***************************************************************************)
Init ==
    /\ \E s \in Scenarios : pending = s.pending /\ output_file = s.output_file
    /\ files = <<>>
    /\ pc = "idle"
    /\ calls = 0
    /\ entry_section_counter = 0
    /\ lines = <<>>
    /\ i = 0
    /\ html_lines = <<>>
    /\ combined_text = <<>>
    /\ section_counter = 0
    /\ subsection_counter = <<>>
    /\ current_section = None
    /\ in_content_section = FALSE
    /\ navigation_items = <<>>
    /\ content_html = <<>>
    /\ navigation_html = <<>>

\* faulty variant: the converter's state is reset when convert is entered
Call_Reset ==
    /\ pc \in {"idle", "returned"}
    /\ pending # <<>>
    /\ lines' = Split(Head(pending), "\n")
    /\ pending' = Tail(pending)
    /\ html_lines' = <<>>
    /\ i' = 0
    /\ pc' = "loop"
    /\ calls' = calls + 1
    /\ entry_section_counter' = 0
    /\ section_counter' = 0
    /\ subsection_counter' = <<>>
    /\ current_section' = None
    /\ in_content_section' = FALSE
    /\ navigation_items' = <<>>
    /\ UNCHANGED <<output_file, files, combined_text, content_html, navigation_html>>

\* convert is entered: lines = markdown_text.split('\n'), html_lines = [], i = 0
Call ==
    /\ pc \in {"idle", "returned"}
    /\ pending # <<>>
    /\ lines' = Split(Head(pending), "\n")
    /\ pending' = Tail(pending)
    /\ html_lines' = <<>>
    /\ i' = 0
    /\ pc' = "loop"
    /\ calls' = calls + 1
    /\ entry_section_counter' = section_counter
    /\ UNCHANGED <<output_file, files, combined_text, conv, content_html, navigation_html>>

\* One iteration of convert's while loop taking branch b.  A run of convert that
\* ends appends at most three fragments per line, so the bound on html_lines cuts
\* off only runs whose cursor has stopped moving.
Looping(b) ==
    /\ pc = "loop"
    /\ i < Len(lines)
    /\ Len(html_lines) < 3 * Len(lines)
    /\ Branch(lines, i) = b

Frame == UNCHANGED <<pending, output_file, files, pc, calls, entry_section_counter, lines,
                     content_html, navigation_html>>

DispatchH1 ==
    /\ Looping("h1")
    /\ LET line == Strip(Line(lines, i))
           title == Strip(Drop(line, 2))
           ctx == H1Context(section_counter, subsection_counter)
           section_id == SectionId(ctx.section_counter)
       IN /\ html_lines' = html_lines \o H1Fragments(in_content_section, section_id, title)
          /\ section_counter' = ctx.section_counter
          /\ current_section' = ctx.current_section
          /\ subsection_counter' = ctx.subsection_counter
          /\ navigation_items' =
                Append(navigation_items, [level |-> 1, id |-> section_id, title |-> title])
          /\ in_content_section' = TRUE
    /\ i' = i + 1
    /\ UNCHANGED combined_text
    /\ Frame

DispatchH2 ==
    /\ Looping("h2")
    /\ LET line == Strip(Line(lines, i))
           title == Strip(Drop(line, 3))
           ctx == H2Context(section_counter, subsection_counter, current_section)
       IN /\ section_counter' = ctx.section_counter
          /\ current_section' = ctx.current_section
          /\ subsection_counter' = ctx.subsection_counter
          /\ navigation_items' =
                Append(navigation_items, [level |-> 2, id |-> ctx.id, title |-> title])
          /\ html_lines' = Append(html_lines, [kind |-> "h3", id |-> ctx.id, title |-> title])
    /\ i' = i + 1
    /\ UNCHANGED <<combined_text, in_content_section>>
    /\ Frame

\* faulty variant: a level-3 heading is recorded as a navigation entry
DispatchH3_AddsNavigation ==
    /\ Looping("h3")
    /\ html_lines' = Append(html_lines,
                            [kind |-> "h4", title |-> Strip(Drop(Strip(Line(lines, i)), 4))])
    /\ navigation_items' =
          Append(navigation_items,
                 [level |-> 3, id |-> SectionId(section_counter),
                  title |-> Strip(Drop(Strip(Line(lines, i)), 4))])
    /\ i' = i + 1
    /\ UNCHANGED <<combined_text, section_counter, subsection_counter, current_section,
                   in_content_section>>
    /\ Frame

DispatchH3 ==
    /\ Looping("h3")
    /\ html_lines' = Append(html_lines,
                            [kind |-> "h4", title |-> Strip(Drop(Strip(Line(lines, i)), 4))])
    /\ i' = i + 1
    /\ UNCHANGED <<combined_text, conv>>
    /\ Frame

DispatchH4 ==
    /\ Looping("h4")
    /\ html_lines' = Append(html_lines,
                            [kind |-> "b", title |-> Strip(Drop(Strip(Line(lines, i)), 5))])
    /\ i' = i + 1
    /\ UNCHANGED <<combined_text, conv>>
    /\ Frame

DispatchImage ==
    /\ Looping("image")
    /\ LET look == ImageLookahead(lines, i, i + 1)
       IN /\ html_lines' = html_lines \o ImageFragments(Strip(Line(lines, i)), look.next_line_url)
          /\ i' = ImageNext(i, look)
    /\ UNCHANGED <<combined_text, conv>>
    /\ Frame

DispatchTable ==
    /\ Looping("table")
    /\ LET t == ExtractTable(lines, i)
       IN /\ html_lines' = Append(html_lines, HandleTable(t.table_lines))
          /\ i' = t.next_i
    /\ UNCHANGED <<combined_text, conv>>
    /\ Frame

DispatchList ==
    /\ Looping("list")
    /\ LET l == ExtractList(lines, i)
       IN /\ html_lines' = Append(html_lines, HandleList(l.list_lines))
          /\ i' = l.next_i
    /\ UNCHANGED <<combined_text, conv>>
    /\ Frame

DispatchReferences ==
    /\ Looping("reference")
    /\ LET r == ExtractReferences(lines, i)
       IN /\ html_lines' = Append(html_lines, HandleReferences(r.ref_lines))
          /\ i' = r.next_i
    /\ UNCHANGED <<combined_text, conv>>
    /\ Frame

DispatchParagraph ==
    /\ Looping("paragraph")
    /\ LET p == ExtractContinuousParagraphs(lines, i)
       IN /\ html_lines' = Append(html_lines, HandleContinuousParagraphs(p.paragraph_lines))
          /\ combined_text' = IF p.paragraph_lines = <<>> THEN combined_text
                              ELSE CombinedText(p.paragraph_lines)
          /\ i' = p.next_i
    /\ UNCHANGED conv
    /\ Frame

DispatchBlank ==
    /\ Looping("blank")
    /\ i' = i + 1
    /\ UNCHANGED <<html_lines, combined_text, conv>>
    /\ Frame

\* convert, after the loop
Finish ==
    /\ pc = "loop"
    /\ i >= Len(lines)
    /\ html_lines' = html_lines \o FinishFragments(in_content_section)
    /\ pc' = "done"
    /\ UNCHANGED <<pending, output_file, files, calls, entry_section_counter, lines, i,
                   combined_text, conv, content_html, navigation_html>>

\* convert returns to convert_with_navigation, which renders the navigation and
\* returns; convert's locals are gone
Return ==
    /\ pc = "done"
    /\ content_html' = html_lines
    /\ navigation_html' = GenerateNavigation(navigation_items)
    /\ lines' = <<>>
    /\ i' = 0
    /\ html_lines' = <<>>
    /\ combined_text' = <<>>
    /\ pc' = "returned"
    /\ UNCHANGED <<pending, output_file, files, calls, entry_section_counter, conv>>

\* convert_file: write html_result to output_file
WriteContent ==
    /\ pc = "returned"
    /\ output_file # NoFile
    /\ files' = (output_file :> content_html) @@ files
    /\ pc' = "wrote"
    /\ UNCHANGED <<pending, output_file, calls, entry_section_counter, lines, i, html_lines,
                   combined_text, conv, content_html, navigation_html>>

\* convert_file: write navigation_html to nav_file
WriteNavigation ==
    /\ pc = "wrote"
    /\ files' = (NavFile(output_file) :> navigation_html) @@ files
    /\ pc' = "file_done"
    /\ UNCHANGED <<pending, output_file, calls, entry_section_counter, lines, i, html_lines,
                   combined_text, conv, content_html, navigation_html>>

Next ==
    \/ Call
    \/ DispatchH1
    \/ DispatchH2
    \/ DispatchH3
    \/ DispatchH4
    \/ DispatchImage
    \/ DispatchTable
    \/ DispatchList
    \/ DispatchReferences
    \/ DispatchParagraph
    \/ DispatchBlank
    \/ Finish
    \/ Return
    \/ WriteContent
    \/ WriteNavigation

Spec == Init /\ [][Next]_vars

(***************************************************************************)
(* Properties.                                                             *)
(***************************************************************************)
Indices(seq, kind) == {k \in DOMAIN seq : seq[k].kind = kind}
Count(seq, kind) == Cardinality(Indices(seq, kind))
CountUpTo(seq, kind, k) == Cardinality({j \in Indices(seq, kind) : j <= k})
FreshCall == calls = 1

\* C1: every iteration of convert's dispatch loop moves the cursor forward by at
\* least one line (so the loop ends after at most len(lines) iterations)
C1_CursorAdvances == [][(pc = "loop" /\ pc' = "loop") => i' > i]_vars

\* C2: on a fresh converter, the finished output holds as many
\* '<div class="content-section">' fragments as '</div>' fragments, one pair per
\* level-1 heading emitted
C2_WrapperBalance ==
    (FreshCall /\ pc = "done") =>
        /\ Count(html_lines, "div_open") = Count(html_lines, "div_close")
        /\ Count(html_lines, "div_open") = Count(html_lines, "h2")

C2_Witness ==
    /\ FreshCall
    /\ pc = "done"
    /\ Count(html_lines, "div_open") >= 2

\* the index of the last level-1 heading fragment before position k, 0 when none
LastH1Before(seq, k) ==
    LET before == {j \in Indices(seq, "h2") : j < k}
    IN IF before = {} THEN 0 ELSE CHOOSE j \in before : \A m \in before : m <= j

\* the number of level-2 heading fragments after the last level-1 heading fragment
\* before k, up to and including k
SubOrdinal(seq, k) ==
    Cardinality({j \in Indices(seq, "h3") : LastH1Before(seq, k) < j /\ j <= k})

\* C3 as stated: on a fresh converter the Nth level-1 heading emitted has id
\* 'sectionN' and the Mth level-2 heading after it has id 'sectionN-M'
C3_Original ==
    FreshCall =>
        /\ \A k \in Indices(html_lines, "h2") :
              html_lines[k].id = SectionId(CountUpTo(html_lines, "h2", k))
        /\ \A k \in Indices(html_lines, "h3") :
              LastH1Before(html_lines, k) # 0 =>
                  html_lines[k].id = SubsectionId(CountUpTo(html_lines, "h2", k),
                                                  SubOrdinal(html_lines, k))

\* 1 when a level-2 heading was emitted before the first level-1 heading at or
\* before position k (a section was synthesized for it), else 0
Synthesized(seq, k) ==
    IF \E j \in Indices(seq, "h3") : j <= k /\ LastH1Before(seq, j) = 0 THEN 1 ELSE 0

\* C3 amended: on a fresh converter the Nth level-1 heading emitted has id
\* 'section(N+S)', S being 1 when a level-2 heading came before the first level-1
\* heading and 0 otherwise; the Mth level-2 heading after a level-1 heading has
\* that heading's id followed by '-M', and the Mth level-2 heading before any
\* level-1 heading has id 'section1-M'
C3_Numbering ==
    FreshCall =>
        /\ \A k \in Indices(html_lines, "h2") :
              html_lines[k].id =
                  SectionId(CountUpTo(html_lines, "h2", k) + Synthesized(html_lines, k))
        /\ \A k \in Indices(html_lines, "h3") :
              html_lines[k].id =
                  IF LastH1Before(html_lines, k) = 0
                  THEN SubsectionId(1, SubOrdinal(html_lines, k))
                  ELSE SubsectionId(CountUpTo(html_lines, "h2", k) + Synthesized(html_lines, k),
                                    SubOrdinal(html_lines, k))

C3_Witness ==
    /\ FreshCall
    /\ pc = "done"
    /\ Len(html_lines) >= 5
    /\ html_lines[1].kind = "h3" /\ html_lines[1].id = "section1-1"
    /\ html_lines[2].kind = "h2" /\ html_lines[2].id = "section2"
    /\ html_lines[4].kind = "h3" /\ html_lines[4].id = "section2-1"
    /\ html_lines[5].kind = "h3" /\ html_lines[5].id = "section2-2"

\* C4: no two navigation entries have the same id, and no two heading fragments of
\* an output carry the same id
C4_UniqueIds ==
    /\ \A a, b \in DOMAIN navigation_items :
          a # b => navigation_items[a].id # navigation_items[b].id
    /\ \A a, b \in Indices(html_lines, "h2") \cup Indices(html_lines, "h3") :
          a # b => html_lines[a].id # html_lines[b].id

C4_Witness ==
    /\ Len(navigation_items) >= 4
    /\ \E a, b \in DOMAIN navigation_items :
          a < b /\ navigation_items[a].level = 2 /\ navigation_items[b].level = 1
    /\ \E a, b \in DOMAIN navigation_items :
          a < b /\ navigation_items[a].level = 1 /\ navigation_items[b].level = 2

\* the heading level of a trimmed source line: 1, 2, or 0 for any other line
HeadingLevel(line) ==
    IF StartsWith(line, <<"#", " ">>) THEN 1
    ELSE IF StartsWith(line, <<"#", "#", " ">>) THEN 2
    ELSE 0

IsHeadingLine(raw) == HeadingLevel(Strip(raw)) # 0

\* C5: after a conversion on a fresh converter, the navigation entries are the
\* level-1 and level-2 heading lines of the source, one entry per line, in order
C5_NavigationMatchesSource ==
    (FreshCall /\ pc = "done") =>
        LET headings == SelectSeq(lines, IsHeadingLine)
        IN /\ Len(navigation_items) = Len(headings)
           /\ \A k \in 1..Len(headings) :
                 k <= Len(navigation_items) =>
                     navigation_items[k].level = HeadingLevel(Strip(headings[k]))

\* a non-stuttering iteration of the dispatch loop taking branch b
Iteration(b) ==
    /\ pc = "loop"
    /\ i < Len(lines)
    /\ Branch(lines, i) = b
    /\ html_lines' # html_lines

\* the first fragment appended by the step
Emitted == html_lines'[Len(html_lines) + 1]

\* C6: on an image line at index i, with j the first non-blank line among
\* i+1..i+3: when line j starts with http:// or https://, the img takes it as src
\* and the cursor moves to j+1; in every other case the img keeps its own src and
\* the cursor moves to i+1
C6_ImageLookahead ==
    [][Iteration("image") =>
          LET line == Strip(Line(lines, i))
              window == {j \in (i + 1)..(i + 3) : j < Len(lines) /\ Strip(Line(lines, j)) # <<>>}
              first == CHOOSE j \in window : \A m \in window : j <= m
              url == window # {} /\ IsUrl(Strip(Line(lines, first)))
          IN /\ ImageMatch(line).matched => Emitted.kind = "img"
             /\ IF url
                THEN /\ i' = first + 1
                     /\ Emitted.kind = "img" => Emitted.src = Strip(Line(lines, first))
                ELSE /\ i' = i + 1
                     /\ Emitted.kind = "img" => Emitted.src = ImageMatch(line).src]_vars

C6_Witness ==
    /\ pc = "loop"
    /\ Len(lines) = 5
    /\ lines[1] = LImage /\ lines[2] = LBlank /\ lines[3] = LSpaces /\ lines[4] = LUrl
    /\ i = 4
    /\ html_lines = <<[kind |-> "img", src |-> Strip(LUrl), alt |-> <<"a">>], Caption>>

IsSeparatorRow(row) == \A k \in DOMAIN row : row[k] \in {"|", "-", " "}
NotSeparatorRow(row) == ~IsSeparatorRow(row)

\* C7 as stated: the <tr> rows of the emitted table are the rows of the collected
\* run that hold a character other than '|', '-' and space, in order; a row made
\* only of those characters produces no <tr>, whatever its position
C7_Original ==
    [][Iteration("table") =>
          LET run == ExtractTable(lines, i).table_lines
              kept == SelectSeq(run, NotSeparatorRow)
          IN <<Emitted.thead>> \o Emitted.tbody = [k \in 1..Len(kept) |-> Cells(kept[k])]]_vars

\* C7 amended: only the second row of the run is omitted, and only when it is made
\* of '|', '-' and space characters alone; the first row is emitted as the header
\* row and every other row as one body row, in order, whatever it holds
C7_SeparatorSecondRowOnly ==
    [][Iteration("table") =>
          LET run == ExtractTable(lines, i).table_lines
              body == IF Len(run) > 1 /\ IsSeparatorRow(run[2]) THEN Drop(run, 2) ELSE Drop(run, 1)
          IN /\ Emitted.kind = "table"
             /\ Emitted.thead = Cells(run[1])
             /\ Emitted.tbody = [k \in 1..Len(body) |-> Cells(body[k])]]_vars

C7_Witness ==
    /\ pc = "loop"
    /\ lines = <<LPipe, LSeparator, LSeparator>>
    /\ i = 3
    /\ Len(html_lines) = 1
    /\ html_lines[1].kind = "table"
    /\ html_lines[1].tbody = << <<<<"-">>>> >>

\* C8: after convert_file, the content and the navigation were written to two
\* different files and the content file holds the content HTML
C8_SeparateFiles ==
    pc = "file_done" =>
        /\ Cardinality(DOMAIN files) = 2
        /\ files[output_file] = content_html

StripOneBr(s) == IF StartsWith(s, Br) THEN Drop(s, Len(Br)) ELSE s

\* C9: when a collected paragraph line starts with digits and '.', the text before
\* inline markup is the space-joined lines with '<br>' inserted before each
\* numbered item, minus one leading '<br>', and nothing else removed
C9_NumberedParagraphText ==
    [][Iteration("paragraph") =>
          LET p == ExtractContinuousParagraphs(lines, i).paragraph_lines
          IN (\E k \in DOMAIN p : IsNumbered(p[k])) =>
                 combined_text' = StripOneBr(InsertBrFrom(Join(p, <<" ">>), 1))]_vars

Ids(items) == [k \in DOMAIN items |-> items[k].id]
Targets(blocks) == [k \in DOMAIN blocks |-> blocks[k].target]
HeadingFragments(seq) == SelectSeq(seq, LAMBDA f : f.kind \in {"h2", "h3"})
FirstH1(seq) == CHOOSE k \in Indices(seq, "h2") : \A m \in Indices(seq, "h2") : k <= m

\* what C10 says of accumulation, of section_counter and of the returned string
Accumulation ==
    /\ pc \in {"loop", "done"} =>
          Ids(navigation_items) = Targets(navigation_html) \o Ids(HeadingFragments(html_lines))
    /\ section_counter =
          Count([k \in DOMAIN navigation_items |-> [kind |-> navigation_items[k].level]], 1)
          + (IF navigation_items # <<>> /\ navigation_items[1].level = 2 THEN 1 ELSE 0)
    /\ section_counter >= entry_section_counter
    /\ pc = "returned" =>
          /\ Len(navigation_html) = Len(navigation_items)
          /\ \A k \in DOMAIN navigation_items :
                /\ navigation_html[k].target = navigation_items[k].id
                /\ navigation_html[k].title = navigation_items[k].title
                /\ navigation_html[k].class =
                      (IF navigation_items[k].level = 1 THEN "nav-item level-1"
                       ELSE "nav-item level-2")

\* C10 as stated: state accumulates over the calls on one converter, and the first
\* level-1 heading of a later call gets id 'section(K+1)', K being section_counter
\* at the end of the previous call
C10_Original ==
    /\ Accumulation
    /\ (calls >= 2 /\ Indices(html_lines, "h2") # {}) =>
          html_lines[FirstH1(html_lines)].id = SectionId(entry_section_counter + 1)

\* C10 amended: state accumulates over the calls on one converter (the entries of
\* call k follow those the previous call returned, section_counter counts the
\* level-1 headings plus the one synthesized section, the returned string renders
\* every accumulated entry), and the first level-1 heading of a later call gets id
\* 'section(K+1)', or 'section(K+2)' when K = 0 and a level-2 heading came before
\* it in that call
C10_Accumulates ==
    /\ Accumulation
    /\ (calls >= 2 /\ Indices(html_lines, "h2") # {}) =>
          html_lines[FirstH1(html_lines)].id =
              SectionId(entry_section_counter + 1
                        + (IF entry_section_counter = 0
                           THEN Synthesized(html_lines, FirstH1(html_lines)) ELSE 0))

C10_Witness ==
    /\ calls = 2
    /\ pc = "returned"
    /\ entry_section_counter = 2
    /\ section_counter = 4
    /\ Len(navigation_html) = 4

\* C11: of the dispatcher's steps only the level-1 and level-2 heading steps change
\* section_counter, subsection_counter, current_section, in_content_section or
\* navigation_items; the level-3, level-4, image, table, list, reference, paragraph
\* and blank-line steps and generate_navigation leave all five unchanged, and the
\* level-2 heading step leaves in_content_section unchanged
C11_ContextFrame ==
    [][/\ (pc = "loop" /\ i < Len(lines) /\ Branch(lines, i) \notin {"h1", "h2"}) =>
              conv' = conv
       /\ (pc = "loop" /\ i < Len(lines) /\ Branch(lines, i) = "h2") =>
              in_content_section' = in_content_section
       /\ (pc = "done" /\ pc' = "returned") =>
              /\ navigation_html' = GenerateNavigation(navigation_items)
              /\ conv' = conv]_vars

\* a finished call in which a level-3 heading and a paragraph were dispatched after
\* a level-1 and a level-2 heading, and the navigation was generated
C11_Witness ==
    /\ pc = "returned"
    /\ Len(navigation_html) = 2
    /\ Len(navigation_items) = 2
    /\ section_counter = 1
    /\ subsection_counter = <<1>>
    /\ current_section = 1
    /\ in_content_section
    /\ Len(content_html) = 6
    /\ content_html[1].kind = "h2"
    /\ content_html[3].kind = "h3"
    /\ content_html[4].kind = "h4"
    /\ content_html[5].kind = "p"

====
